---- MODULE Spec2Model ----
(***************************************************************************)
(* Model of the salon booking app (src/app.py): the Bookings and Services  *)
(* worksheets, the read_dataframes cache, the guest page (slot generation, *)
(* availability filter, booking append) and the admin panel (status        *)
(* update by id, service append).                                          *)
(*                                                                         *)
(* Strings the code parses or formats character by character (times of     *)
(* day, typed-in ids, typed-in names) are sequences of one-character       *)
(* strings; a datetime of the selected day is its number of minutes after  *)
(* that day's midnight (it may exceed 24h after adding a timedelta).       *)
(***************************************************************************)
EXTENDS Integers, Sequences, FiniteSets, TLC

VARIABLES
    bookings_ws,   \* the Bookings worksheet: header row, then one row per booking
    services_ws,   \* the Services worksheet: header row, then one row per service
    cache,         \* st.cache_data entry of read_dataframes: <<>> or <<snapshot>>
    sess,          \* per guest browser session: widget state and script position
    now,           \* datetime.utcnow(), in ticks of 100 microseconds
    tz,            \* the local time zone of the process
    admin,         \* the admin panel: its id and status widgets and its last message
    appended_at,   \* history: the clock when each booking row reached the sheet
    probe          \* last result of the availability computation run on its own

vars == <<bookings_ws, services_ws, cache, sess, now, tz, admin, appended_at, probe>>

----------------------------------------------------------------------------
(* Bounds of the model *)

MaxBookings == 2      \* booking rows appended by guests
MaxSheetRows == 2     \* rows of a hand-filled sheet given to the availability computation
MaxAddedServices == 1 \* services appended by the admin

----------------------------------------------------------------------------
(* Configuration, src/app.py:17-21 *)

time(h, m) == h * 60 + m

WORKING_HOURS == <<time(9, 0), time(18, 0)>>

SLOT_MINUTES == 30

MinutesPerDay == 24 * 60

----------------------------------------------------------------------------
(* The clock.  datetime.utcnow() is a naive datetime; its timestamp() reads  *)
(* it as a time of the process's local zone.  The model's clock counts     *)
(* from the midnight of 2026-03-29 and starts just before 03:00; in a zone   *)
(* that moves its clocks forward that day (Europe/Budapest: 02:00 -> 03:00   *)
(* local) the naive times before 03:00 are read with the offset of winter    *)
(* time, those from 03:00 on with that of summer time.                       *)

TicksPerMs == 10

HourTicks == 3600 * 1000 * TicksPerMs

Zones == {"UTC", "Europe/Budapest"}

\* the naive time 03:00, in ticks since the midnight before
SpringForwardAt == 3 * HourTicks

\* the clock when the app starts
StartTicks == SpringForwardAt - (TicksPerMs \div 2)

\* the UTC offset the local zone gives the naive datetime t
utcoffset(zone, t) ==
    IF zone = "UTC" THEN 0
    ELSE IF t < SpringForwardAt THEN HourTicks
    ELSE 2 * HourTicks

\* naive_datetime.timestamp(), in ticks
timestamp(zone, t) == t - utcoffset(zone, t)

----------------------------------------------------------------------------
(* Character strings *)

Digits == <<"0", "1", "2", "3", "4", "5", "6", "7", "8", "9">>

IsDigit(c) == \E i \in 1..10 : Digits[i] = c

DigitVal(c) == (CHOOSE i \in 1..10 : Digits[i] = c) - 1

\* int(text) of a string of digits
RECURSIVE DigitsVal(_)
DigitsVal(s) ==
    IF s = <<>> THEN 0
    ELSE 10 * DigitsVal(SubSeq(s, 1, Len(s) - 1)) + DigitVal(s[Len(s)])

\* str(n) of a non-negative integer
RECURSIVE str(_)
str(n) ==
    IF n < 10 THEN <<Digits[n + 1]>>
    ELSE str(n \div 10) \o <<Digits[(n % 10) + 1]>>

\* text.strip(): leading and trailing blanks removed
RECURSIVE strip(_)
strip(s) ==
    IF s = <<>> THEN s
    ELSE IF s[1] = " " THEN strip(Tail(s))
    ELSE IF s[Len(s)] = " " THEN strip(SubSeq(s, 1, Len(s) - 1))
    ELSE s

\* time.strftime("%H:%M"): both fields zero-padded to two digits
strftime(t) ==
    LET h == t \div 60
        m == t % 60
    IN  <<Digits[(h \div 10) + 1], Digits[(h % 10) + 1], ":",
          Digits[(m \div 10) + 1], Digits[(m % 10) + 1]>>

\* position of the ":" that ends the hour field: the first ":" of s when it is
\* among the first three characters, else 0 (no hour of one or two digits)
ColonAt(s) ==
    IF Len(s) >= 1 /\ s[1] = ":" THEN 1
    ELSE IF Len(s) >= 2 /\ s[2] = ":" THEN 2
    ELSE IF Len(s) >= 3 /\ s[3] = ":" THEN 3
    ELSE 0

\* does datetime.strptime(s, "%H:%M") succeed: one or two digits of hour
\* (0..23), a colon, one or two digits of minute (0..59), nothing else
strptime_ok(s) ==
    LET c == ColonAt(s)
        hh == SubSeq(s, 1, c - 1)
        mm == SubSeq(s, c + 1, Len(s))
    IN  /\ c \in 2..3
        /\ Len(mm) \in 1..2
        /\ \A i \in 1..Len(hh) : IsDigit(hh[i])
        /\ \A i \in 1..Len(mm) : IsDigit(mm[i])
        /\ DigitsVal(hh) <= 23
        /\ DigitsVal(mm) <= 59

\* datetime.strptime(s, "%H:%M").time(), for an s that parses
strptime(s) ==
    LET c == ColonAt(s)
    IN  time(DigitsVal(SubSeq(s, 1, c - 1)), DigitsVal(SubSeq(s, c + 1, Len(s))))

----------------------------------------------------------------------------
(* Worksheets *)

InSeq(x, q) == \E i \in 1..Len(q) : q[i] = x

BOOKINGS_HEADER ==
    <<"id", "date", "start_time", "end_time", "service", "duration_min",
      "name", "phone", "status", "note", "created_at">>

SERVICES_HEADER == <<"service", "duration_min", "price">>

\* headers.index(name) + 1
ColOf(headers, name) == CHOOSE i \in 1..Len(headers) : headers[i] = name

\* ws.get_all_records(): the rows under the header, each read by column name
get_all_records(ws) == Tail(ws)

Field(headers, r, name) == r[ColOf(headers, name)]

BField(r, name) == Field(BOOKINGS_HEADER, r, name)

SField(r, name) == Field(SERVICES_HEADER, r, name)

\* ws.append_row(row)
append_row(ws, row) == Append(ws, row)

\* ws.update_cell(i, col, value)
update_cell(ws, i, col, value) == [ws EXCEPT ![i][col] = value]

\* selected_date.isoformat() of the days a guest can pick (0 is today)
isoformat(d) == IF d = 0 THEN "2026-11-04" ELSE "2026-11-05"

Days == {0, 1}

\* the default catalog ensure_sheets seeds the Services sheet with
\* (a text is a sequence of symbols; a name without blanks is one symbol)
default_services ==
    << << <<"Gellakk">>, 60, <<"8000">> >>,
       << <<"Toltes">>, 90, <<"12000">> >>,
       << <<"Manikur">>, 45, <<"6000">> >>,
       << <<"Diszites">>, 10, <<"500">> >> >>

\* ensure_sheets on a fresh workbook: both sheets created, Services seeded
ensure_sheets_bookings == <<BOOKINGS_HEADER>>

ensure_sheets_services == <<SERVICES_HEADER>> \o default_services

----------------------------------------------------------------------------
(* Slot generation and the availability filter *)

\* the while loop of generate_slots, from cur on; guard is the minimal-
\* visibility step (15 minutes)
RECURSIVE generate_from(_, _, _)
generate_from(cur, end_dt, guard) ==
    IF cur + guard <= end_dt
    THEN <<strftime(cur % MinutesPerDay)>> \o generate_from(cur + SLOT_MINUTES, end_dt, guard)
    ELSE <<>>

\* the slots of a working day do not depend on the arguments
slots_no_guard == generate_from(WORKING_HOURS[1], WORKING_HOURS[2], 0)

slots_of_working_day == generate_from(WORKING_HOURS[1], WORKING_HOURS[2], 15)

generate_slots_no_guard(selected_date, services_df, bookings_df) == slots_no_guard

generate_slots(selected_date, services_df, bookings_df) == slots_of_working_day

\* datetime.strptime(s, "%H:%M").time() of the slots generate_slots can return,
\* parsed once
slot_times ==
    [s \in {slots_no_guard[i] : i \in 1..Len(slots_no_guard)} |-> strptime(s)]

strptime_slot(s) == IF s \in DOMAIN slot_times THEN slot_times[s] ELSE strptime(s)

overlaps(start_a, end_a, start_b, end_b) == (start_a < end_b) /\ (end_a > start_b)

\* bookings_df[bookings_df["date"] == selected_date.isoformat()]
day_bookings_active_only(bookings_df, selected_date) ==
    SelectSeq(bookings_df, LAMBDA rb : /\ BField(rb, "date") = isoformat(selected_date)
                                       /\ BField(rb, "status") # "cancelled")

day_bookings_of(bookings_df, selected_date) ==
    SelectSeq(bookings_df, LAMBDA rb : BField(rb, "date") = isoformat(selected_date))

\* the try block of the inner loop: <<b_start, b_end>> of booking row rb, or
\* <<>> when either time fails to parse (except: continue)
parse_row_or_block(rb) ==
    IF strptime_ok(BField(rb, "start_time")) /\ strptime_ok(BField(rb, "end_time"))
    THEN <<strptime(BField(rb, "start_time")), strptime(BField(rb, "end_time"))>>
    ELSE <<0, MinutesPerDay>>

parse_row(rb) ==
    IF strptime_ok(BField(rb, "start_time")) /\ strptime_ok(BField(rb, "end_time"))
    THEN <<strptime(BField(rb, "start_time")), strptime(BField(rb, "end_time"))>>
    ELSE <<>>

\* the body of "for s in slot_list": is slot s kept, given the parsed rows of
\* the day
slot_kept(s, parsed, duration_min) ==
    LET stime == strptime_slot(s)
        etime == stime + duration_min
        conflict == \E i \in 1..Len(parsed) :
                        /\ parsed[i] # <<>>
                        /\ overlaps(stime, etime, parsed[i][1], parsed[i][2])
    IN  ~conflict /\ (etime % MinutesPerDay) <= WORKING_HOURS[2]

\* the filter loop of the guest page
avail_slots_of(bookings_df, services_df, selected_date, duration_min) ==
    LET slot_list == generate_slots(selected_date, services_df, bookings_df)
        day_bookings == day_bookings_of(bookings_df, selected_date)
        parsed == [i \in 1..Len(day_bookings) |-> parse_row(day_bookings[i])]
    IN  SelectSeq(slot_list, LAMBDA s : slot_kept(s, parsed, duration_min))

----------------------------------------------------------------------------
(* The availability computation on its own: a sheet filled by hand (the    *)
(* store is a spreadsheet its owner can edit), a date and a duration.      *)

T(h, m) == strftime(time(h, m))

BookingRow(id, d, st, en, dur, status) ==
    <<id, isoformat(d), st, en, <<"Gellakk">>, dur, <<"Anna">>, <<"1">>, status, <<>>, 0>>

\* rows with well-formed times
GoodRows ==
    { BookingRow(1, 0, T(10, 0), T(11, 0), 60, "booked"),
      BookingRow(2, 0, T(11, 0), T(11, 45), 45, "cancelled"),
      BookingRow(3, 0, T(10, 30), T(12, 0), 90, "booked"),
      BookingRow(4, 0, T(17, 0), T(18, 0), 60, "done"),
      BookingRow(5, 1, T(9, 0), T(10, 0), 60, "booked"),
      BookingRow(6, 0, <<"9", ":", "0", "0">>, <<"9", ":", "5">>, 5, "booked") }

\* rows whose start_time or end_time datetime.strptime rejects
BadRows ==
    { BookingRow(7, 0, T(13, 0), <<"2", "5", ":", "0", "0">>, 60, "booked"),
      BookingRow(8, 0, <<>>, T(15, 0), 60, "booked"),
      BookingRow(9, 0, <<"1", "6", ":", "6", "0">>, T(17, 0), 60, "cancelled"),
      BookingRow(10, 0, <<"1", "2", "0", "0">>, <<"1", "3", ":", "0", "0", " ">>, 60, "booked") }

RowPool == GoodRows \cup BadRows

RECURSIVE SeqsUpTo(_, _)
SeqsUpTo(S, n) ==
    IF n = 0 THEN {<<>>}
    ELSE LET shorter == SeqsUpTo(S, n - 1)
         IN  shorter \cup {Append(q, x) : q \in shorter, x \in S}

\* durations a service can have: the seeded ones and what the admin form
\* accepts (5 to 480)
ProbeDurations == {5, 10, 45, 60, 90, 389, 390, 480}

NoProbe ==
    [done |-> FALSE, selected_date |-> 0, duration_min |-> 0,
     slot_list |-> <<>>, avail_slots |-> <<>>]

\* the guest page's slot computation for date d and a service of duration dur,
\* on the bookings as the sheet holds them
Probe(d, dur) ==
    /\ ~probe.done
    /\ probe' = [done |-> TRUE, selected_date |-> d, duration_min |-> dur,
                 slot_list |-> generate_slots(d, get_all_records(services_ws),
                                              get_all_records(bookings_ws)),
                 avail_slots |-> avail_slots_of(get_all_records(bookings_ws),
                                                get_all_records(services_ws), d, dur)]
    /\ UNCHANGED <<bookings_ws, services_ws, cache, sess, now, admin, appended_at, tz>>

Guests == {"g1", "g2"}

AdminIdle == [msg |-> "none", booking_id_to_change |-> <<>>, new_status |-> "booked"]

ClosedSession ==
    [pc |-> "closed", service_opts |-> <<>>, service_sel |-> <<>>, selected_date |-> 0,
     duration_min |-> 0, avail_slots |-> <<>>, selected_time |-> <<>>, pending |-> <<>>]

InitAvail ==
    /\ bookings_ws \in {<<BOOKINGS_HEADER>> \o rows : rows \in SeqsUpTo(RowPool, MaxSheetRows)}
    /\ services_ws = ensure_sheets_services
    /\ cache = <<>>
    /\ sess = [g \in Guests |-> ClosedSession]
    /\ now = StartTicks
    /\ tz = "UTC"
    /\ admin = AdminIdle
    /\ appended_at = <<>>
    /\ probe = NoProbe

NextAvail == \E d \in Days, dur \in ProbeDurations : Probe(d, dur)

SpecAvail == InitAvail /\ [][NextAvail]_vars

----------------------------------------------------------------------------
(* The guest page.  Every interaction reruns the whole script: it reads the *)
(* sheets through read_dataframes, recomputes the slots and, on a click of  *)
(* the confirm button with a name and a phone, appends the booking.         *)

\* read_dataframes under st.cache_data: the cached value while the entry
\* lives, else a fresh read of both sheets
read_dataframes(c, bws, sws) ==
    IF c # <<>> THEN c[1]
    ELSE [bookings |-> get_all_records(bws), services |-> get_all_records(sws)]

\* st.selectbox: the session's value while the options are those of the
\* previous run, else the first option
selectbox(options, old_options, value) ==
    IF options = old_options /\ InSeq(value, options) THEN value ELSE options[1]

\* int(datetime.utcnow().timestamp() * 1000), t the clock
booking_id(zone, t) == timestamp(zone, t) \div TicksPerMs

\* the booking dict of the submit handler
booking_of(selected_date, selected_time, duration_min, service_sel, name, phone, note) ==
    [date |-> isoformat(selected_date),
     start_time |-> selected_time,
     duration_min |-> duration_min,
     end_time |-> strftime((strptime(selected_time) + duration_min) % MinutesPerDay),
     service |-> service_sel,
     name |-> strip(name),
     phone |-> strip(phone),
     note |-> strip(note)]

\* the row save_booking builds at clock t (created_at is the clock reading)
booking_row(booking_record, zone, t) ==
    <<booking_id(zone, t), booking_record.date, booking_record.start_time,
      booking_record.end_time, booking_record.service, booking_record.duration_min,
      booking_record.name, booking_record.phone, "booked", booking_record.note, t>>

\* does row overlap a row of the sheet of the same date
RowsCollide(r1, r2) ==
    /\ BField(r1, "date") = BField(r2, "date")
    /\ overlaps(strptime(BField(r1, "start_time")), strptime(BField(r1, "end_time")),
                strptime(BField(r2, "start_time")), strptime(BField(r2, "end_time")))

\* ws.append_row(row) of save_booking
save_booking_if_free(ws, row) ==
    IF \E i \in 2..Len(ws) : RowsCollide(ws[i], row) THEN ws ELSE append_row(ws, row)

save_booking(ws, row) == append_row(ws, row)

\* services_df[services_df["service"] == service_sel].iloc[0]
RECURSIVE service_row(_, _)
service_row(services_df, service_sel) ==
    IF SField(services_df[1], "service") = service_sel THEN services_df[1]
    ELSE service_row(Tail(services_df), service_sel)

Pending == Cardinality({g \in Guests : sess[g].pc = "appending"})

\* one run of the script for guest g with the widgets asking for service svc,
\* date d and time t, the confirm button clicked or not (snap is what
\* read_dataframes returns, avail_slots the list the filter loop builds)
GuestRun(g, svc, d, t, click, name, phone, note) ==
    \E snap \in {read_dataframes(cache, bookings_ws, services_ws)} :
    LET services_options == [i \in 1..Len(snap.services) |-> SField(snap.services[i], "service")]
        service_sel == selectbox(services_options, sess[g].service_opts, svc)
        duration_min == SField(service_row(snap.services, service_sel), "duration_min")
    IN
    \E avail_slots \in {avail_slots_of(snap.bookings, snap.services, d, duration_min)} :
    LET selected_time == IF avail_slots = <<>> THEN <<>>
                         ELSE selectbox(avail_slots, sess[g].avail_slots, t)
        submit == click /\ avail_slots # <<>> /\ strip(name) # <<>> /\ strip(phone) # <<>>
        booking == booking_of(d, selected_time, duration_min, service_sel, name, phone, note)
    IN  /\ cache' = <<snap>>
        /\ sess' = [sess EXCEPT ![g] =
                      [pc |-> IF submit THEN "appending" ELSE "page",
                       service_opts |-> services_options,
                       service_sel |-> service_sel,
                       selected_date |-> d,
                       duration_min |-> duration_min,
                       avail_slots |-> avail_slots,
                       selected_time |-> selected_time,
                       pending |-> IF submit THEN booking_row(booking, tz, now) ELSE <<>>]]
        /\ UNCHANGED <<bookings_ws, services_ws, now, admin, appended_at, tz, probe>>

\* the guest opens the page: first service, today, first slot
GuestOpen(g) ==
    /\ sess[g].pc = "closed"
    /\ GuestRun(g, <<>>, 0, <<>>, FALSE, <<>>, <<>>, <<>>)

GuestSelectService(g, svc) ==
    /\ sess[g].pc = "page"
    /\ InSeq(svc, sess[g].service_opts)
    /\ svc # sess[g].service_sel
    /\ GuestRun(g, svc, sess[g].selected_date, sess[g].selected_time, FALSE, <<>>, <<>>, <<>>)

GuestSelectDate(g, d) ==
    /\ sess[g].pc = "page"
    /\ d # sess[g].selected_date
    /\ GuestRun(g, sess[g].service_sel, d, sess[g].selected_time, FALSE, <<>>, <<>>, <<>>)

GuestSelectTime(g, t) ==
    /\ sess[g].pc = "page"
    /\ InSeq(t, sess[g].avail_slots)
    /\ t # sess[g].selected_time
    /\ GuestRun(g, sess[g].service_sel, sess[g].selected_date, t, FALSE, <<>>, <<>>, <<>>)

\* the guest clicks the confirm button (it is on the page only when slots are)
GuestSubmit(g, name, phone) ==
    /\ sess[g].pc = "page"
    /\ sess[g].avail_slots # <<>>
    /\ Len(bookings_ws) - 1 + Pending < MaxBookings
    /\ GuestRun(g, sess[g].service_sel, sess[g].selected_date, sess[g].selected_time,
                TRUE, name, phone, <<>>)

\* the round trip of ws.append_row takes a millisecond or more
MinAppendTicks == TicksPerMs

\* save_booking's append reaches the sheet; the script run ends
GuestAppend(g, latency) ==
    /\ sess[g].pc = "appending"
    /\ bookings_ws' = save_booking(bookings_ws, sess[g].pending)
    /\ now' = now + latency
    /\ appended_at' = Append(appended_at, now + latency)
    /\ sess' = [sess EXCEPT ![g].pc = "page", ![g].pending = <<>>]
    /\ UNCHANGED <<services_ws, cache, admin, tz, probe>>

\* the guest closes the page
GuestLeave(g) ==
    /\ sess[g].pc = "page"
    /\ sess' = [sess EXCEPT ![g] = ClosedSession]
    /\ UNCHANGED <<bookings_ws, services_ws, cache, now, admin, appended_at, tz, probe>>

\* the cache entry of read_dataframes outlives its ttl of 30 seconds
CacheExpire ==
    /\ cache # <<>>
    /\ cache' = <<>>
    /\ UNCHANGED <<bookings_ws, services_ws, sess, now, admin, appended_at, tz, probe>>

----------------------------------------------------------------------------
(* The admin panel *)

ADMIN_PASSWORD == "titok"

\* as first_match, but the last record that matches
RECURSIVE last_match(_, _, _)
last_match(ws, i, id_text) ==
    IF i > Len(ws) THEN 0
    ELSE IF last_match(ws, i + 1, id_text) # 0 THEN last_match(ws, i + 1, id_text)
    ELSE IF str(BField(ws[i], "id")) = id_text THEN i
    ELSE 0

\* the loop "for i, r in enumerate(rows, start=2)": sheet row of the first
\* record from row i on whose str(id) is the id typed in, 0 when none is
RECURSIVE first_match(_, _, _)
first_match(ws, i, id_text) ==
    IF i > Len(ws) THEN 0
    ELSE IF str(BField(ws[i], "id")) = id_text THEN i
    ELSE first_match(ws, i + 1, id_text)

\* the "Alkalmaz statusz" button: status new_status for the id typed in
AdminApplyStatus(password, id_text, new_status) ==
    LET logged_in == password # "" /\ password = ADMIN_PASSWORD
        i == first_match(bookings_ws, 2, strip(id_text))
        headers == bookings_ws[1]
    IN  /\ UNCHANGED <<services_ws, cache, sess, now, appended_at, tz, probe>>
        /\ IF ~logged_in
           THEN /\ admin' = [AdminIdle EXCEPT !.msg = "wrong_password"]
                /\ UNCHANGED bookings_ws
           ELSE IF get_all_records(bookings_ws) = <<>>
           THEN /\ admin' = [AdminIdle EXCEPT !.msg = "no_bookings"]
                /\ UNCHANGED bookings_ws
           ELSE IF strip(id_text) = <<>>
           THEN /\ admin' = [msg |-> "give_an_id", booking_id_to_change |-> id_text,
                             new_status |-> new_status]
                /\ UNCHANGED bookings_ws
           ELSE IF i = 0
           THEN /\ admin' = [msg |-> "not_found", booking_id_to_change |-> id_text,
                             new_status |-> new_status]
                /\ UNCHANGED bookings_ws
           ELSE /\ admin' = [msg |-> "updated", booking_id_to_change |-> id_text,
                             new_status |-> new_status]
                /\ bookings_ws' = update_cell(bookings_ws, i, ColOf(headers, "status"),
                                              new_status)

\* the add_service form
AdminAddService(password, new_service, new_duration, new_price) ==
    LET logged_in == password # "" /\ password = ADMIN_PASSWORD
    IN  /\ Len(services_ws) - 1 - Len(default_services) < MaxAddedServices
        /\ UNCHANGED <<bookings_ws, cache, sess, now, appended_at, tz, probe>>
        /\ IF ~logged_in
           THEN /\ admin' = [AdminIdle EXCEPT !.msg = "wrong_password"]
                /\ UNCHANGED services_ws
           ELSE IF strip(new_service) = <<>>
           THEN /\ admin' = [AdminIdle EXCEPT !.msg = "none"]
                /\ UNCHANGED services_ws
           ELSE /\ admin' = [AdminIdle EXCEPT !.msg = "service_added"]
                /\ services_ws' = append_row(services_ws,
                                     <<strip(new_service), new_duration, strip(new_price)>>)

\* ids the admin types in: those of the sheet, with blanks around them
SheetIdTexts ==
    {<<" ">> \o str(BField(bookings_ws[i], "id")) \o <<" ">> : i \in 2..Len(bookings_ws)}

----------------------------------------------------------------------------
(* The app: a fresh workbook, two guest sessions, the admin *)

Init ==
    /\ bookings_ws = ensure_sheets_bookings
    /\ services_ws = ensure_sheets_services
    /\ cache = <<>>
    /\ sess = [g \in Guests |-> ClosedSession]
    /\ now = StartTicks
    /\ tz \in Zones
    /\ admin = AdminIdle
    /\ appended_at = <<>>
    /\ probe = NoProbe

Names(g) == {<<" ">>, <<" ", g>>}

Phone == <<"06", "1">>

\* The whole app.  The first guest picks among services, days and times, the
\* second books what the page pre-selects; the admin cancels bookings and
\* adds the longest service the form accepts.
Next ==
    \/ \E g \in Guests : GuestOpen(g)
    \/ \E svc \in {<<"Long">>, <<"Gellakk">>} : GuestSelectService("g1", svc)
    \/ \E d \in Days : GuestSelectDate("g1", d)
    \/ GuestSelectTime("g1", T(17, 30))
    \/ \E g \in Guests : \E name \in Names(g) : GuestSubmit(g, name, Phone)
    \/ \E g \in Guests : GuestAppend(g, MinAppendTicks)
    \/ \E g \in Guests : GuestLeave(g)
    \/ CacheExpire
    \/ \E id_text \in SheetIdTexts : AdminApplyStatus(ADMIN_PASSWORD, id_text, "cancelled")
    \/ AdminAddService(ADMIN_PASSWORD, <<"Long", " ">>, 480, <<"0">>)

Spec == Init /\ [][Next]_vars

\* Guests served strictly one after another: a guest acts only while no other
\* guest has the page open.  Only the seeded services, which end within the
\* day.
Alone(g) == \A h \in Guests \ {g} : sess[h].pc = "closed"

NextSerial ==
    \/ \E g \in Guests : Alone(g) /\ GuestOpen(g)
    \/ \E g \in Guests, d \in Days : Alone(g) /\ GuestSelectDate(g, d)
    \/ \E g \in Guests : Alone(g) /\ GuestSelectTime(g, T(9, 30))
    \/ \E g \in Guests : \E name \in Names(g) : Alone(g) /\ GuestSubmit(g, name, Phone)
    \/ \E g \in Guests : Alone(g) /\ GuestAppend(g, MinAppendTicks)
    \/ \E g \in Guests : Alone(g) /\ GuestLeave(g)
    \/ CacheExpire
    \/ \E id_text \in SheetIdTexts : AdminApplyStatus(ADMIN_PASSWORD, id_text, "cancelled")

SpecSerial == Init /\ [][NextSerial]_vars

\* The booking desk: the guests book what the page pre-selects, at the same
\* time or one after the other, and the admin types right and wrong
\* passwords, ids of the sheet, an id of no booking, a blank, and every status.
NextDesk ==
    \/ \E g \in Guests : GuestOpen(g)
    \/ \E g \in Guests : GuestSubmit(g, <<g>>, Phone)
    \/ \E g \in Guests : GuestAppend(g, MinAppendTicks)
    \/ CacheExpire
    \/ \E password \in {ADMIN_PASSWORD, "jelszo", ""},
          id_text \in SheetIdTexts \cup {<<"9", "9">>, <<" ">>},
          new_status \in {"booked", "cancelled", "done"} :
            AdminApplyStatus(password, id_text, new_status)

SpecDesk == Init /\ [][NextDesk]_vars

----------------------------------------------------------------------------
(* Properties of the availability computation *)

ProbeDay == day_bookings_of(get_all_records(bookings_ws), probe.selected_date)

RowParses(rb) == strptime_ok(BField(rb, "start_time")) /\ strptime_ok(BField(rb, "end_time"))

RowStart(rb) == strptime(BField(rb, "start_time"))

RowEnd(rb) == strptime(BField(rb, "end_time"))

\* the day's bookings all parse and no two of them overlap
ProbeDayClean ==
    /\ \A i \in 1..Len(ProbeDay) : RowParses(ProbeDay[i])
    /\ \A i, j \in 1..Len(ProbeDay) :
         i < j => ~overlaps(RowStart(ProbeDay[i]), RowEnd(ProbeDay[i]),
                            RowStart(ProbeDay[j]), RowEnd(ProbeDay[j]))

\* the candidate starting at minute t of the day fits: it ends by closing time
\* and overlaps no booking of the day
Fits(t) ==
    /\ t + probe.duration_min <= WORKING_HOURS[2]
    /\ \A i \in 1..Len(ProbeDay) :
         ~overlaps(t, t + probe.duration_min, RowStart(ProbeDay[i]), RowEnd(ProbeDay[i]))

\* C1: with well-formed, mutually non-overlapping bookings of the day, a
\* candidate slot is returned if and only if it ends by closing time and
\* overlaps no booking of the day (touching a booking is not overlapping it).
C1_ReturnedIffFits ==
    (probe.done /\ ProbeDayClean) =>
        \A k \in 1..Len(probe.slot_list) :
            InSeq(probe.slot_list[k], probe.avail_slots) <=> Fits(strptime(probe.slot_list[k]))

\* C2: with no bookings at all, a candidate is returned exactly when its end,
\* start + duration, is at or before closing time, for every duration from 5
\* to 480 minutes.
C2_ClosingBoundary ==
    (probe.done /\ Len(get_all_records(bookings_ws)) = 0) =>
        \A k \in 1..Len(probe.slot_list) :
            LET end == strptime(probe.slot_list[k]) + probe.duration_min
            IN  /\ end <= WORKING_HOURS[2] => InSeq(probe.slot_list[k], probe.avail_slots)
                /\ end > WORKING_HOURS[2] => ~InSeq(probe.slot_list[k], probe.avail_slots)

\* the sheet's bookings without those a time of which fails to parse
ParsingRows == SelectSeq(get_all_records(bookings_ws), RowParses)

\* C4: a booking whose start_time or end_time fails to parse is ignored: the
\* slots returned are those computed with that booking removed, and every
\* well-formed booking of the day still blocks the slots it overlaps.
C4_MalformedIgnored ==
    probe.done =>
        /\ probe.avail_slots =
             avail_slots_of(ParsingRows, get_all_records(services_ws),
                            probe.selected_date, probe.duration_min)
        /\ \A i \in 1..Len(ProbeDay), k \in 1..Len(probe.avail_slots) :
             RowParses(ProbeDay[i]) =>
                ~overlaps(strptime(probe.avail_slots[k]),
                          strptime(probe.avail_slots[k]) + probe.duration_min,
                          RowStart(ProbeDay[i]), RowEnd(ProbeDay[i]))

\* a day with a malformed booking and a well-formed one that blocks a slot,
\* and slots still on offer
C4_Witness ==
    /\ probe.done
    /\ \E i \in 1..Len(ProbeDay) : ~RowParses(ProbeDay[i])
    /\ \E i \in 1..Len(ProbeDay) : RowParses(ProbeDay[i])
    /\ Len(probe.avail_slots) > 0
    /\ Len(ParsingRows) < Len(get_all_records(bookings_ws))
    /\ \E k \in 1..Len(probe.slot_list) :
         /\ strptime(probe.slot_list[k]) + probe.duration_min <= WORKING_HOURS[2]
         /\ ~InSeq(probe.slot_list[k], probe.avail_slots)

\* is q a subsequence of r
RECURSIVE IsSubseq(_, _)
IsSubseq(q, r) ==
    IF q = <<>> THEN TRUE
    ELSE IF r = <<>> THEN FALSE
    ELSE IF q[1] = r[1] THEN IsSubseq(Tail(q), Tail(r))
    ELSE IsSubseq(q, Tail(r))

\* C5: the candidates are exactly opening + k * 30 minutes, k = 0, 1, ..., as
\* long as start + 15 minutes <= closing (09:00 ... 17:30), whatever the
\* duration and the bookings; the slots returned are a subsequence of them, in
\* strictly increasing order.
C5_CandidateGrid ==
    probe.done =>
        LET n == Len(probe.slot_list)
        IN  /\ \A k \in 1..n :
                 /\ probe.slot_list[k] = strftime(WORKING_HOURS[1] + (k - 1) * SLOT_MINUTES)
                 /\ strptime(probe.slot_list[k]) = WORKING_HOURS[1] + (k - 1) * SLOT_MINUTES
                 /\ strptime(probe.slot_list[k]) + 15 <= WORKING_HOURS[2]
            /\ WORKING_HOURS[1] + n * SLOT_MINUTES + 15 > WORKING_HOURS[2]
            /\ probe.slot_list[1] = <<"0", "9", ":", "0", "0">>
            /\ probe.slot_list[n] = <<"1", "7", ":", "3", "0">>
            /\ IsSubseq(probe.avail_slots, probe.slot_list)
            /\ \A i, j \in 1..Len(probe.avail_slots) :
                 i < j => strptime(probe.avail_slots[i]) < strptime(probe.avail_slots[j])

\* a run that returned some candidates and dropped others
C5_Witness ==
    /\ probe.done
    /\ Len(probe.avail_slots) > 1
    /\ Len(probe.avail_slots) < Len(probe.slot_list)
    /\ Len(ProbeDay) > 0

\* reference versions of C1 and C2 for durations that stay within the day
C1_WithinDay ==
    (probe.done /\ ProbeDayClean /\ WORKING_HOURS[2] + probe.duration_min < MinutesPerDay) =>
        \A k \in 1..Len(probe.slot_list) :
            InSeq(probe.slot_list[k], probe.avail_slots) <=> Fits(strptime(probe.slot_list[k]))

----------------------------------------------------------------------------
(* Properties of the app *)

Statuses == {"booked", "cancelled", "done"}

\* the records of the sheet with status f[i] in row i
Restatus(rows, f) ==
    [i \in 1..Len(rows) |-> [rows[i] EXCEPT ![ColOf(BOOKINGS_HEADER, "status")] = f[i]]]

\* C10: two sheets that differ only in the status column give the same slots
\* for the date and the duration asked; a cancelled booking keeps blocking.
C10_StatusBlind ==
    probe.done =>
        \A f \in [1..Len(get_all_records(bookings_ws)) -> Statuses] :
            avail_slots_of(Restatus(get_all_records(bookings_ws), f),
                           get_all_records(services_ws),
                           probe.selected_date, probe.duration_min) = probe.avail_slots

\* a slot that fits before closing and that only a cancelled booking blocks
C10_Witness ==
    /\ probe.done
    /\ \E k \in 1..Len(probe.slot_list) :
         LET t == strptime(probe.slot_list[k])
             hit(i) == /\ RowParses(ProbeDay[i])
                       /\ overlaps(t, t + probe.duration_min,
                                   RowStart(ProbeDay[i]), RowEnd(ProbeDay[i]))
         IN  /\ t + probe.duration_min <= WORKING_HOURS[2]
             /\ ~InSeq(probe.slot_list[k], probe.avail_slots)
             /\ \E i \in 1..Len(ProbeDay) : hit(i)
             /\ \A i \in 1..Len(ProbeDay) : hit(i) => BField(ProbeDay[i], "status") = "cancelled"

\* C3: save_booking checks nothing: whatever the sheet holds by then, the row
\* a guest's submission built is appended as it is.
C3_AppendNeverRejected ==
    [][\A g \in Guests :
          (sess[g].pc = "appending" /\ sess'[g].pc # "appending")
             => bookings_ws' = Append(bookings_ws, sess[g].pending)]_vars

\* two guests' bookings of the same date, both 'booked', that overlap
C3_Witness ==
    \E i, j \in 2..Len(bookings_ws) :
        /\ i < j
        /\ BField(bookings_ws[i], "name") # BField(bookings_ws[j], "name")
        /\ BField(bookings_ws[i], "status") = "booked"
        /\ BField(bookings_ws[j], "status") = "booked"
        /\ RowsCollide(bookings_ws[i], bookings_ws[j])

RowKeepsInvariant(r) ==
    strptime(BField(r, "end_time")) = strptime(BField(r, "start_time")) + BField(r, "duration_min")

\* C6: every row a guest submission appends has end_time = start_time +
\* duration_min minutes, is written with status 'booked', and starts at a slot
\* of the list shown to that guest.
C6_RowInvariant ==
    /\ \A i \in 2..Len(bookings_ws) : RowKeepsInvariant(bookings_ws[i])
    /\ \A g \in Guests :
         sess[g].pc = "appending" =>
            /\ BField(sess[g].pending, "status") = "booked"
            /\ InSeq(BField(sess[g].pending, "start_time"), sess[g].avail_slots)

SequentialIdsIncrease ==
    /\ \A i, j \in 2..Len(bookings_ws) :
         BField(bookings_ws[j], "created_at") >= appended_at[i - 1]
            => BField(bookings_ws[j], "id") > BField(bookings_ws[i], "id")
    /\ \A g \in Guests, i \in 2..Len(bookings_ws) :
         (sess[g].pc = "appending" /\ BField(sess[g].pending, "created_at") >= appended_at[i - 1])
            => BField(sess[g].pending, "id") > BField(bookings_ws[i], "id")

\* the part of C8 that the local zone does not decide: a process whose local
\* zone is UTC
C8_InUTC == tz = "UTC" => SequentialIdsIncrease

\* C8: of two submissions one after the other (the later save_booking starts
\* when the earlier row has reached the sheet), the later gets the greater id.
C8_SequentialIdsIncrease == SequentialIdsIncrease

\* the part of C6 that the closing-time check does not decide: rows of
\* services that end within the day
C6_WithinDay ==
    /\ \A i \in 2..Len(bookings_ws) :
         BField(bookings_ws[i], "duration_min") + WORKING_HOURS[2] < MinutesPerDay
            => RowKeepsInvariant(bookings_ws[i])
    /\ \A g \in Guests :
         sess[g].pc = "appending" =>
            /\ BField(sess[g].pending, "status") = "booked"
            /\ InSeq(BField(sess[g].pending, "start_time"), sess[g].avail_slots)

\* C9: with guests served strictly one after another and services that end
\* within the day, no two rows of the same date overlap.
C9_SerialNoCollision ==
    (\A i \in 2..Len(bookings_ws) :
        strptime(BField(bookings_ws[i], "start_time")) + BField(bookings_ws[i], "duration_min")
            < MinutesPerDay)
    => \A i, j \in 2..Len(bookings_ws) : i < j => ~RowsCollide(bookings_ws[i], bookings_ws[j])

\* sheet rows whose id, as text, is the id typed in
Hits(ws, id_text) == {i \in 2..Len(ws) : str(BField(ws[i], "id")) = id_text}

Least(S) == CHOOSE i \in S : \A j \in S : i <= j

\* C7: a status update by id changes the status cell of the first row with
\* that id and nothing else; with no such row it changes nothing and reports
\* that the id was not found; and no step of the app removes or rewrites a
\* booking row otherwise.
C7_StatusUpdateFrame ==
    [][LET X == strip(admin'.booking_id_to_change)
           hits == Hits(bookings_ws, X)
           status_col == ColOf(BOOKINGS_HEADER, "status")
       IN  /\ Len(bookings_ws') >= Len(bookings_ws)
           /\ bookings_ws'[1] = bookings_ws[1]
           /\ \A i \in 2..Len(bookings_ws), c \in 1..Len(BOOKINGS_HEADER) :
                c # status_col => bookings_ws'[i][c] = bookings_ws[i][c]
           /\ (sess' = sess /\ cache' = cache) =>
                /\ Len(bookings_ws') = Len(bookings_ws)
                /\ admin'.msg = "updated" =>
                     /\ hits # {}
                     /\ \A i \in 2..Len(bookings_ws) :
                          bookings_ws'[i][status_col] =
                             IF i = Least(hits) THEN admin'.new_status
                             ELSE bookings_ws[i][status_col]
                /\ admin'.msg = "not_found" => (hits = {} /\ bookings_ws' = bookings_ws)
                /\ admin'.msg \notin {"updated", "not_found"} => bookings_ws' = bookings_ws]_vars

\* the admin has updated an id that two rows share: the first has the new
\* status, the second has not
C7_Witness ==
    /\ admin.msg = "updated"
    /\ \E i, j \in Hits(bookings_ws, strip(admin.booking_id_to_change)) :
         /\ i < j
         /\ BField(bookings_ws[i], "status") = admin.new_status
         /\ BField(bookings_ws[j], "status") # admin.new_status

====
